---------------------------- MODULE Spec2Model ----------------------------
(***************************************************************************)
(* A model of myFM's scoring core:                                         *)
(*   - the truncated normal sampler of util.hpp (src/includes/FM.hpp,      *)
(*     lines 68-156),                                                      *)
(*   - the FM object, its constructors and initialize_weight,              *)
(*   - FM::predict_score with relation blocks (src/unnamed/part_000) and   *)
(*     the older predict_score without blocks (src/includes/FM.hpp).       *)
(***************************************************************************)
EXTENDS Integers, Sequences, FiniteSets, TLC

VARIABLES
  \* ---- sample_truncated_normal_left / _right -------------------------
  s_pc,        \* "idle" | "rejection" | "envelope" | "returned"
  s_side,      \* "left" | "right": the function the caller invoked
  s_bound,     \* the threshold the caller passed (mu_minus or mu_plus)
  mu_minus,    \* the argument of sample_truncated_normal_left
  alpha_star,  \* envelope rate, NoReal while not computed
  z,           \* the last candidate drawn, NoReal before the first trial
  s_ret,       \* the value handed back to the caller, NoReal before
  n_draws,     \* <<kind, count>>: deviates the last trial took from gen
  trials,      \* trials of the current call, saturating at MaxTrials
  gen,         \* deviates drawn from the mt19937 so far, modulo GenPeriod
  \* ---- the FM object, its constructors and initialize_weight ----------
  fm,          \* [n_factors, w0, w, V, initialized]
  ctor,        \* how fm was constructed: "new" | "explicit" | "copy"
  args_ok,     \* the constructor's arguments had w.rows() = V.rows()
  i_pc,        \* "idle" | "fill_V" | "fill_w" | "fill_w0"
  n_features,  \* argument of the running (or last) initialize_weight
  init_std,    \* argument of the running (or last) initialize_weight
  i_draws,     \* normal deviates the running (or last) call drew
  i_calls,     \* completed initialize_weight calls, saturating at 1
  \* ---- predict_score --------------------------------------------------
  p_pc,        \* "idle" | "linear" | "q_base" | "q_block" | "c_block" |
               \* "return" | "done"
  api,         \* "blocks": predict_score(X, relations) of part_000;
               \* "plain": predict_score(X) of FM.hpp
  X,           \* the base matrix of the call
  relations,   \* the relation blocks of the call
  result,      \* Vector result, <<>> while not allocated
  q_cache,     \* Vector q_cache
  buffer_cache,   \* vector<Real> buffer_cache, <<>> while not allocated
  factor_index,   \* the loop variable at part_000:85
  relation_index, \* the loop variable at part_000:88 and 103
  offset,      \* the offset into w and V (part_000:87, 102)
  hi_access,   \* 1 + the highest index of buffer_cache.data() used so far
  build,       \* what the build does with an ill-sized block_cache
  outcome      \* how the call ended: [kind, score]

s_vars == <<s_pc, s_side, s_bound, mu_minus, alpha_star, z, s_ret, n_draws,
            trials, gen>>

i_vars == <<ctor, args_ok, i_pc, n_features, init_std, i_draws, i_calls>>

p_vars == <<p_pc, api, X, relations, result, q_cache, buffer_cache,
            factor_index, relation_index, offset, hi_access, build,
            outcome>>

vars == <<s_vars, fm, i_vars, p_vars>>

Max(a, b) == IF a >= b THEN a ELSE b
Min(a, b) == IF a <= b THEN a ELSE b

(***************************************************************************)
(* Real: the template parameter of the source, a binary floating-point     *)
(* type.  The model keeps what the claims depend on: a significand of Prec *)
(* bits, rounding to nearest (ties to even), overflow to infinity, NaN.    *)
(* A finite value is an integer count of quanta; 1.0 is One = 2^Prec       *)
(* quanta, so that the spacing of the values just above 1.0 is two quanta  *)
(* and the largest value below 1.0 is One - 1.                             *)
(***************************************************************************)
Prec == 3
EMax == 5
One == 2 ^ Prec
MaxFinite == One * (2 ^ EMax)

Fin(n) == [cls |-> "fin", v |-> n]
PosInf == [cls |-> "inf", v |-> 1]
NegInf == [cls |-> "inf", v |-> -1]
NaN == [cls |-> "nan", v |-> 0]
NoReal == [cls |-> "none", v |-> 0]

IsFin(x) == x.cls = "fin"
IsNaN(x) == x.cls = "nan"
IsInf(x) == x.cls = "inf"
Sgn(n) == IF n > 0 THEN 1 ELSE IF n < 0 THEN -1 ELSE 0

\* The element of a one-element set.  Binding an intermediate result as
\* x \in {e} evaluates e once, wherever the operator is used.
The(S) == CHOOSE r \in S : TRUE

\* The number of bits of n >= 0.
BitLen(n) ==
  CHOOSE b \in 0..(2 * Prec + 2 * EMax + 4) :
    2 ^ b > n /\ (b = 0 \/ 2 ^ (b - 1) <= n)

\* The spacing of the representable values around n >= 0.
Ulp(n) == 2 ^ Max(0, BitLen(n) - Prec)

\* num/den >= 0 rounded to a multiple of ulp, to nearest, ties to even;
\* step = ulp * den.
RoundAt(num, step, ulp) ==
  LET k == num \div step
      rem == num - k * step
      up == (2 * rem > step) \/ (2 * rem = step /\ k % 2 = 1)
      r == (IF up THEN k + 1 ELSE k) * ulp
  IN  IF r > MaxFinite THEN PosInf ELSE Fin(r)

\* num/den >= 0 rounded to the nearest representable value.
RoundPos(num, den) ==
  The({The({RoundAt(n, u * d, u) : u \in {Ulp(n \div d)}}) :
         n \in {num}, d \in {den}})

FNeg(x) == The({IF IsNaN(a) THEN NaN ELSE [cls |-> a.cls, v |-> -a.v] : a \in {x}})

\* The exact rational num/den (den > 0), rounded.
Fl(num, den) == IF num >= 0 THEN RoundPos(num, den) ELSE FNeg(RoundPos(-num, den))

AddV(x, y) ==
  IF IsNaN(x) \/ IsNaN(y) THEN NaN
  ELSE IF IsInf(x) /\ IsInf(y) THEN (IF x.v = y.v THEN x ELSE NaN)
  ELSE IF IsInf(x) THEN x
  ELSE IF IsInf(y) THEN y
  ELSE Fl(x.v + y.v, 1)

MulV(x, y) ==
  IF IsNaN(x) \/ IsNaN(y) THEN NaN
  ELSE IF IsInf(x) \/ IsInf(y)
       THEN (IF x.v = 0 \/ y.v = 0 THEN NaN
             ELSE IF Sgn(x.v) = Sgn(y.v) THEN PosInf ELSE NegInf)
  ELSE Fl(x.v * y.v, One)

DivV(x, y) ==
  IF IsNaN(x) \/ IsNaN(y) THEN NaN
  ELSE IF IsInf(x) /\ IsInf(y) THEN NaN
  ELSE IF IsInf(x) THEN (IF Sgn(x.v) * Sgn(y.v) >= 0 THEN PosInf ELSE NegInf)
  ELSE IF IsInf(y) THEN Fin(0)
  ELSE IF y.v = 0
       THEN (IF x.v = 0 THEN NaN ELSE IF x.v > 0 THEN PosInf ELSE NegInf)
  ELSE Fl(x.v * One * Sgn(y.v), y.v * Sgn(y.v))

\* floor(sqrt(m))
ISqrt(m) == CHOOSE r \in 0..(One * (2 ^ EMax) * 2 + 1) : r * r <= m /\ (r + 1) * (r + 1) > m

\* The root to a quarter of a quantum with a sticky bit, rounded once.
SqrtV(x) ==
  IF IsNaN(x) THEN NaN
  ELSE IF IsInf(x) THEN (IF x.v > 0 THEN PosInf ELSE NaN)
  ELSE IF x.v < 0 THEN NaN
  ELSE The({Fl(2 * r + (IF r * r = x.v * One * 4 THEN 0 ELSE 1), 4) :
              r \in {ISqrt(x.v * One * 4)}})

\* Real's +, -, *, / and std::sqrt
FAdd(x, y) == The({AddV(a, b) : a \in {x}, b \in {y}})
FSub(x, y) == FAdd(x, FNeg(y))
FMul(x, y) == The({MulV(a, b) : a \in {x}, b \in {y}})
FDiv(x, y) == The({DivV(a, b) : a \in {x}, b \in {y}})
FSqrt(x) == The({SqrtV(a) : a \in {x}})

\* Comparisons: every comparison with NaN is false.
Ord(x) == IF IsFin(x) THEN x.v ELSE x.v * (MaxFinite + 1)
LtV(x, y) == ~IsNaN(x) /\ ~IsNaN(y) /\ Ord(x) < Ord(y)
LeV(x, y) == ~IsNaN(x) /\ ~IsNaN(y) /\ Ord(x) <= Ord(y)
FLt(x, y) == The({LtV(a, b) : a \in {x}, b \in {y}})
FGt(x, y) == FLt(y, x)
FLe(x, y) == The({LeV(a, b) : a \in {x}, b \in {y}})
FGe(x, y) == FLe(y, x)

(***************************************************************************)
(* The deviates the sampler takes from gen.                                *)
(*   NormalDraws: values of normal_distribution<Real>(0, 1).               *)
(*   ExpDraws:    -std::log(U) for U of uniform_real_distribution(0, 1),   *)
(*                U in [0, 1): one quantum for the largest U below 1.0,    *)
(*                +infinity for U = 0.                                     *)
(*   Uniforms:    the second uniform deviate u, in [0, 1).                 *)
(***************************************************************************)
NormalDraws == {Fin(-3 * One), Fin(-One), Fin(0), Fin(One), Fin(3 * One)}
ExpDraws == {Fin(1), Fin(One), Fin(3 * One), PosInf}
Uniforms == {Fin(0), Fin(One \div 2), Fin(One - 1)}

\* The thresholds a caller passes: negative, zero, small and large positive,
\* the largest finite value, the infinities and NaN.
Thresholds ==
  {Fin(-2 * One), Fin(-1), Fin(0), Fin(1), Fin(One), Fin(4 * One),
   Fin(MaxFinite), PosInf, NegInf, NaN}

MaxTrials == 3
GenPeriod == 4

\* FM.hpp:84  if (mu_minus < 0)
UseRejection_le(mu) == FLe(mu, Fin(0))
UseRejection(mu) == FLt(mu, Fin(0))

\* FM.hpp:93  alpha_star = (mu_minus + sqrt(mu_minus * mu_minus + 4)) / 2
AlphaStar(mu) ==
  FDiv(FAdd(mu, FSqrt(FAdd(FMul(mu, mu), Fin(4 * One)))), Fin(2 * One))

\* FM.hpp:88  if (z > mu_minus)
RejectionAccepts(zz, mu) == FGt(zz, mu)

\* FM.hpp:96  z = -log(dist(gen)) / alpha_star + mu_minus, e = -log(dist(gen))
Candidate(e, alpha, mu) == FAdd(FDiv(e, alpha), mu)

\* FM.hpp:97  the argument of exp: -(z - alpha_star) * (z - alpha_star) / 2
RhoArg(zz, alpha) ==
  LET d == FSub(zz, alpha) IN FDiv(FMul(FNeg(d), d), Fin(2 * One))

\* FM.hpp:97  rho = std::exp(arg), arg <= 0.  exp(0) = 1, exp(-inf) = 0,
\* exp(NaN) = NaN; for a finite negative argument the value lies strictly
\* between 0 and 1 and the model lets it be any such value.
RhoRange(arg) ==
  IF IsNaN(arg) THEN {NaN}
  ELSE IF IsInf(arg) THEN (IF arg.v < 0 THEN {Fin(0)} ELSE {PosInf})
  ELSE IF arg.v = 0 THEN {Fin(One)}
  ELSE IF arg.v < 0 THEN {Fin(r) : r \in 1..(One - 1)}
  ELSE {Fin(One + 1)}

\* FM.hpp:99  if (u < rho)
EnvelopeAccepts_notge(u, rho) == ~FGe(u, rho)
EnvelopeAccepts(u, rho) == FLt(u, rho)

\* FM.hpp:83-104, entry: the branch is chosen once per call.
EnterLeft(mu) ==
  /\ mu_minus' = mu
  /\ z' = NoReal
  /\ s_ret' = NoReal
  /\ n_draws' = <<"none", 0>>
  /\ trials' = 0
  /\ IF UseRejection(mu)
       THEN s_pc' = "rejection" /\ alpha_star' = NoReal
       ELSE s_pc' = "envelope" /\ alpha_star' = AlphaStar(mu)
  /\ UNCHANGED gen

\* sample_truncated_normal_left(gen, mu_minus), FM.hpp:82-83
CallLeft(b) ==
  /\ s_pc \in {"idle", "returned"}
  /\ s_side' = "left"
  /\ s_bound' = b
  /\ EnterLeft(b)
  /\ UNCHANGED <<fm, i_vars, p_vars>>

\* sample_truncated_normal_right(gen, mu_plus), FM.hpp:111-114: the call of
\* sample_truncated_normal_left(gen, -mu_plus)
CallRight(b) ==
  /\ s_pc \in {"idle", "returned"}
  /\ s_side' = "right"
  /\ s_bound' = b
  /\ EnterLeft(FNeg(b))
  /\ UNCHANGED <<fm, i_vars, p_vars>>

\* What the caller receives: z from _left, -z from _right (FM.hpp:113).
Returned(zz) == IF s_side = "right" THEN FNeg(zz) ELSE zz

\* One iteration of the loop at FM.hpp:86-91.
RejectionTrial(n) ==
  /\ s_pc = "rejection"
  /\ z' = n
  /\ n_draws' = <<"normal", 1>>
  /\ trials' = Min(trials + 1, MaxTrials)
  /\ gen' = (gen + 1) % GenPeriod
  /\ IF RejectionAccepts(n, mu_minus)
       THEN s_pc' = "returned" /\ s_ret' = Returned(n)
       ELSE UNCHANGED <<s_pc, s_ret>>
  /\ UNCHANGED <<s_side, s_bound, mu_minus, alpha_star>>
  /\ UNCHANGED <<fm, i_vars, p_vars>>

\* One iteration of the loop at FM.hpp:95-102.
EnvelopeTrial(e, u) ==
  /\ s_pc = "envelope"
  /\ LET zz == Candidate(e, alpha_star, mu_minus)
     IN  /\ z' = zz
         /\ \E rho \in RhoRange(RhoArg(zz, alpha_star)) :
              IF EnvelopeAccepts(u, rho)
                THEN s_pc' = "returned" /\ s_ret' = Returned(zz)
                ELSE UNCHANGED <<s_pc, s_ret>>
  /\ n_draws' = <<"uniform", 2>>
  /\ trials' = Min(trials + 1, MaxTrials)
  /\ gen' = (gen + 2) % GenPeriod
  /\ UNCHANGED <<s_side, s_bound, mu_minus, alpha_star>>
  /\ UNCHANGED <<fm, i_vars, p_vars>>


(***************************************************************************)
(* The FM object.  Its scalars are exact numbers (integers here): the      *)
(* claims about scores are claims of exact arithmetic.  w is a sequence;   *)
(* V is [rows, cols, coef], coef in column-major order as Eigen stores a   *)
(* ColMajor DenseMatrix.  While initialize_weight fills V or w, coef or w  *)
(* holds the coefficients written so far.                                  *)
(***************************************************************************)
MaxFeatures == 2
MaxFactors == 2

\* What an uninitialized Real member may hold.
Indeterminate == {-7, 7}
\* Values of nd(gen) and of the init_std argument.
Deviates == {-1, 1}
Stds == {2, 3}
\* Test values for externally fitted parameters, by a seed.
Seeds == {0, 1, 2}
Gen(seed, i) == ((seed + 3 * i) % 5) - 2
GenSeq(seed, n) == [i \in 1..n |-> Gen(seed, i)]

Matrix(r, c, coef) == [rows |-> r, cols |-> c, coef |-> coef]
\* A default-constructed Eigen matrix or vector has no coefficients.
EmptyMatrix == Matrix(0, 0, <<>>)
\* V(j, f), 1-based.
At(M, j, f) == M.coef[(f - 1) * M.rows + j]

\* part_000:22-24  FM(int n_factors, size_t n_groups); w0 is not set.
FMNew(k, n_groups, g) ==
  [n_factors |-> k, w0 |-> g, w |-> <<>>, V |-> EmptyMatrix,
   initialized |-> FALSE]

\* part_000:26-28  FM(const FM &other)
FMCopy(o) ==
  [n_factors |-> o.n_factors, w0 |-> o.w0, w |-> o.w, V |-> o.V,
   initialized |-> o.initialized]

\* part_000:30-31  FM(Real w0, const Vector &w, const DenseMatrix &V)
FMExplicit(b, lin, fac) ==
  [n_factors |-> fac.cols, w0 |-> b, w |-> lin, V |-> fac,
   initialized |-> TRUE]

\* The arguments a caller may hand to the explicit constructor: any vector
\* and any matrix, their sizes unrelated.
ExplicitArgs ==
  {<<Gen(sd, 0), GenSeq(sd + 1, lw), Matrix(r, c, GenSeq(sd + 2, r * c))>> :
     sd \in Seeds, lw \in 0..MaxFeatures, r \in 0..MaxFeatures,
     c \in 0..MaxFactors}

\* part_000:37-39  get_rand: nd(gen) * init_std
GetRand(d) == d * init_std

\* part_000:40  DenseMatrix{n_features, n_factors}, no coefficient yet
NewV_swapped(p, k) == Matrix(k, p, <<>>)
NewV(p, k) == Matrix(p, k, <<>>)

\* part_000:41  the size of Vector{n_features}
WSize_factors(p, k) == k
WSize(p, k) == p

\* part_000:41  w = Vector{n_features}.unaryExpr(get_rand) starts: w has
\* its new size and none of its coefficients yet.
AfterV == IF WSize(n_features, fm.n_factors) > 0 THEN "fill_w" ELSE "fill_w0"

\* part_000:33-40  initialize_weight(n_features, init_std, gen), up to the
\* resize of V.
InitializeWeight(p, sd) ==
  /\ i_pc = "idle"
  /\ n_features' = p
  /\ init_std' = sd
  /\ i_draws' = 0
  /\ IF p * fm.n_factors > 0
       THEN /\ i_pc' = "fill_V"
            /\ fm' = [fm EXCEPT !.initialized = FALSE,
                                !.V = NewV(p, fm.n_factors)]
       ELSE /\ i_pc' = IF WSize(p, fm.n_factors) > 0 THEN "fill_w" ELSE "fill_w0"
            /\ fm' = [fm EXCEPT !.initialized = FALSE,
                                !.V = NewV(p, fm.n_factors),
                                !.w = <<>>]
  /\ UNCHANGED <<ctor, args_ok, i_calls>> /\ UNCHANGED <<s_vars, p_vars>>

\* part_000:40  one coefficient of V, one deviate
DrawV(d) ==
  /\ i_pc = "fill_V"
  /\ LET coef == Append(fm.V.coef, GetRand(d))
         full == Len(coef) = fm.V.rows * fm.V.cols
     IN  /\ fm' = IF full
                    THEN [fm EXCEPT !.V.coef = coef, !.w = <<>>]
                    ELSE [fm EXCEPT !.V.coef = coef]
         /\ i_pc' = IF full THEN AfterV ELSE "fill_V"
  /\ i_draws' = i_draws + 1
  /\ UNCHANGED <<ctor, args_ok, n_features, init_std, i_calls>> /\ UNCHANGED <<s_vars, p_vars>>

\* part_000:41  one coefficient of w, one deviate
DrawW(d) ==
  /\ i_pc = "fill_w"
  /\ fm' = [fm EXCEPT !.w = Append(fm.w, GetRand(d))]
  /\ i_pc' = IF Len(fm.w) + 1 = WSize(n_features, fm.n_factors)
               THEN "fill_w0" ELSE "fill_w"
  /\ i_draws' = i_draws + 1
  /\ UNCHANGED <<ctor, args_ok, n_features, init_std, i_calls>> /\ UNCHANGED <<s_vars, p_vars>>

\* part_000:42-43  w0 = get_rand(1); initialized = true
DrawW0(d) ==
  /\ i_pc = "fill_w0"
  /\ fm' = [fm EXCEPT !.w0 = GetRand(d), !.initialized = TRUE]
  /\ i_pc' = "idle"
  /\ i_draws' = i_draws + 1
  /\ i_calls' = 1
  /\ UNCHANGED <<ctor, args_ok, n_features, init_std>> /\ UNCHANGED <<s_vars, p_vars>>

\* part_000:26-28  FM(const FM &other), between calls; the copy is the
\* object followed from here on.
CopyConstruct ==
  /\ i_pc = "idle"
  /\ fm' = FMCopy(fm)
  /\ ctor' = "copy"
  /\ UNCHANGED <<args_ok, i_pc, n_features, init_std, i_draws, i_calls>>
  /\ UNCHANGED <<s_vars, p_vars>>

ObjectIdle ==
  /\ ctor = "new"
  /\ args_ok = TRUE
  /\ i_pc = "idle"
  /\ n_features = 0
  /\ init_std = 1
  /\ i_draws = 0
  /\ i_calls = 0


(***************************************************************************)
(* predict_score.  A score is kept in units of 1/Denominator, so that the  *)
(* factor 0.5 of part_000:100 and 121 is exact.                            *)
(***************************************************************************)
Denominator == 2
Whole(n) == n * Denominator
HalfOf(n) == (n * Denominator) \div 2

RECURSIVE SeqSum(_)
SeqSum(sq) == IF sq = <<>> THEN 0 ELSE Head(sq) + SeqSum(Tail(sq))

\* Eigen: M(i, j), M * v, v.segment(off, len) (v.head(n) is segment(0, n)),
\* M.col(f), M.cwiseAbs2(), v.array().square()
Row(M, i) == [j \in 1..M.cols |-> At(M, i, j)]
MatVec(M, v) == [i \in 1..M.rows |-> SeqSum([j \in 1..M.cols |-> At(M, i, j) * v[j]])]
Segment(v, off, len) == [j \in 1..len |-> v[off + j]]
Col(M, f) == [j \in 1..M.rows |-> At(M, j, f)]
CwiseAbs2(M) == Matrix(M.rows, M.cols, [k \in 1..Len(M.coef) |-> M.coef[k] * M.coef[k]])
Square(v) == [j \in 1..Len(v) |-> v[j] * v[j]]
Zeros(n) == [j \in 1..n |-> 0]

\* relational::RelationBlock (definitions.hpp): the unique rows X, the row
\* of X each case uses, and the number of columns of X.
RelationBlock(map, M) ==
  [original_to_block |-> map, X |-> M, feature_size |-> M.cols]

\* part_000:70-72, 96-98, 117-119: cache(i) for i in original_to_block
Gather(cache, map) == [j \in 1..Len(map) |-> cache[map[j] + 1]]

RECURSIVE SeqMax(_)
SeqMax(sq) == IF sq = <<>> THEN -1 ELSE Max(Head(sq), SeqMax(Tail(sq)))

RECURSIVE FeatureSizeSum(_)
FeatureSizeSum(rels) ==
  IF rels = <<>> THEN 0
  ELSE Head(rels).feature_size + FeatureSizeSum(Tail(rels))

\* part_000:49-64  the checks, in the order of the code
CheckInput_init_first(f, M, rels) ==
  IF ~f.initialized THEN "runtime_error"
  ELSE IF \E r \in 1..Len(rels) : M.rows # Len(rels[r].original_to_block)
    THEN "invalid_argument"
  ELSE IF M.cols + FeatureSizeSum(rels) # Len(f.w) THEN "invalid_argument"
  ELSE "ok"
CheckInput(f, M, rels) ==
  IF \E r \in 1..Len(rels) : M.rows # Len(rels[r].original_to_block)
    THEN "invalid_argument"
  ELSE IF M.cols + FeatureSizeSum(rels) # Len(f.w) THEN "invalid_argument"
  ELSE IF ~f.initialized THEN "runtime_error"
  ELSE "ok"

\* part_000:67-74  the blocks' share of the linear term
RECURSIVE LinearBlocks(_, _, _, _)
LinearBlocks(res, rels, off, w) ==
  IF rels = <<>> THEN res
  ELSE LET rel == Head(rels)
           w0_cache == MatVec(rel.X, Segment(w, off, rel.feature_size))
           add == Gather(w0_cache, rel.original_to_block)
       IN  LinearBlocks([j \in 1..Len(res) |-> res[j] + Whole(add[j])],
                        Tail(rels), off + rel.feature_size, w)

\* part_000:65  result = w0 + (X * w.head(X.cols())).array()
LinearBase(f, M) ==
  LET xw == MatVec(M, Segment(f.w, 0, M.cols))
  IN  [i \in 1..M.rows |-> Whole(f.w0 + xw[i])]

\* part_000:77-83  buffer_size
RECURSIVE BufferSize(_)
BufferSize(rels) ==
  IF rels = <<>> THEN 1
  ELSE Max(Head(rels).feature_size, BufferSize(Tail(rels)))

\* part_000:86  X * V.col(factor_index).head(X.cols())
QBaseOf(f, M, fi) == MatVec(M, Segment(Col(f.V, fi + 1), 0, M.cols))

\* part_000:93  iter->X * V.col(factor_index).segment(offset, feature_size)
QBlockOf(f, rel, fi, off) ==
  MatVec(rel.X, Segment(Col(f.V, fi + 1), off, rel.feature_size))

\* part_000:100  result.array() += q_cache.array().square() * 0.5
AddHalfSquare(res, q) == [i \in 1..Len(res) |-> res[i] + HalfOf(q[i] * q[i])]

\* part_000:104-105  X.cwiseAbs2() * V.col(..).head(X.cols()).array().square()
CBaseOf_no_square(f, M, fi) ==
  MatVec(M, Square(Segment(Col(f.V, fi + 1), 0, M.cols)))
CBaseOf(f, M, fi) ==
  MatVec(CwiseAbs2(M), Square(Segment(Col(f.V, fi + 1), 0, M.cols)))

\* part_000:110-114
CBlockOf(f, rel, fi, off) ==
  MatVec(CwiseAbs2(rel.X),
         Square(Segment(Col(f.V, fi + 1), off, rel.feature_size)))

\* part_000:121  result -= q_cache * 0.5
SubHalf(res, q) == [i \in 1..Len(res) |-> res[i] - HalfOf(q[i])]

(***************************************************************************)
(* part_000:91-93 and 108-114: block_cache is an Eigen::Map of             *)
(* feature_size coefficients over buffer_cache.data(), and it is assigned  *)
(* a product that has one coefficient for each row of the block; the       *)
(* gather then reads block_cache(i) for the block rows i the cases use.    *)
(* A Map cannot be resized.  With as many rows as columns all of this is   *)
(* defined.  Otherwise the assignment breaks Eigen's precondition          *)
(* (eigen_assert on the sizes), and what happens is the build's choice:    *)
(*   "assert"  assertions are compiled in: the program stops;              *)
(*   "copy"    the product is evaluated into a temporary and the Map's     *)
(*             feature_size coefficients are copied from it, so a row at   *)
(*             or past feature_size is read as whatever the memory holds;  *)
(*   "store"   every row of the product is stored through the raw pointer; *)
(*   "add"     the Map's coefficients are set to zero and every row of the *)
(*             product is added through the raw pointer.                   *)
(* Memory that the call did not write holds junk.                          *)
(***************************************************************************)
Modes == {"copy", "store", "add"}
NoBuild == [mode |-> "unknown", junk |-> 0]
Builds ==
  {[mode |-> "assert", junk |-> 0]}
    \cup {[mode |-> m, junk |-> g] : m \in Modes, g \in Indeterminate}

\* block_cache(i) after the assignment, i from 1, for a build b
BlockView(buf, prod, fsize, b) ==
  [i \in 1..Len(prod) |->
     IF i <= fsize THEN prod[i]
     ELSE IF b.mode = "store" THEN prod[i]
     ELSE IF i > Len(buf) THEN b.junk
     ELSE IF b.mode = "add" THEN buf[i] + prod[i]
     ELSE buf[i]]

\* buffer_cache after the assignment
BlockStore(buf, prod, fsize, b) ==
  LET view == BlockView(buf, prod, fsize, b)
  IN  [i \in 1..Len(buf) |->
         IF i <= Len(prod) THEN view[i]
         ELSE IF i > fsize THEN buf[i]
         ELSE IF b.mode = "copy" THEN b.junk
         ELSE IF b.mode = "add" THEN 0
         ELSE buf[i]]

\* 1 + the highest index of buffer_cache.data() the assignment and the
\* gather use
BlockReach(prod, fsize, map, b) ==
  LET read == Max(0, 1 + SeqMax(map))
  IN  IF b.mode = "copy" THEN Max(fsize, read)
      ELSE Max(Max(fsize, Len(prod)), read)

\* part_000:89-99 (q = TRUE) and 106-120 (q = FALSE): one relation block
BlockStep(q) ==
  /\ relation_index < Len(relations)
  /\ LET rel == relations[relation_index + 1]
         prod == IF q THEN QBlockOf(fm, rel, factor_index, offset)
                      ELSE CBlockOf(fm, rel, factor_index, offset)
     IN  \E b \in Builds \cup {build} :
           /\ IF Len(prod) = rel.feature_size \/ build # NoBuild
                THEN b = build
                ELSE b \in Builds
           /\ IF Len(prod) # rel.feature_size /\ b.mode = "assert"
                THEN /\ p_pc' = "done"
                     /\ outcome' = [kind |-> "abort", score |-> <<>>]
                     /\ build' = b
                     /\ UNCHANGED <<buffer_cache, q_cache, hi_access, offset,
                                    relation_index>>
                ELSE /\ LET add == Gather(BlockView(buffer_cache, prod,
                                                    rel.feature_size, b),
                                          rel.original_to_block)
                        IN  q_cache' = [j \in 1..Len(q_cache) |->
                                          q_cache[j] + add[j]]
                     /\ buffer_cache' =
                          BlockStore(buffer_cache, prod, rel.feature_size, b)
                     /\ hi_access' =
                          Max(hi_access,
                              BlockReach(prod, rel.feature_size,
                                         rel.original_to_block, b))
                     /\ build' = b
                     /\ offset' = offset + rel.feature_size
                     /\ relation_index' = relation_index + 1
                     /\ UNCHANGED <<p_pc, outcome>>
  /\ UNCHANGED <<api, X, relations, result, factor_index>>
  /\ UNCHANGED <<s_vars, fm, i_vars>>

NoOutcome == [kind |-> "none", score |-> <<>>]

\* part_000:46-64  predict_score(X, relations): the call and its checks
PredictScore(M, rels) ==
  /\ p_pc = "idle"
  /\ api' = "blocks"
  /\ X' = M
  /\ relations' = rels
  /\ result' = <<>>
  /\ q_cache' = <<>>
  /\ buffer_cache' = <<>>
  /\ factor_index' = 0
  /\ relation_index' = 0
  /\ offset' = 0
  /\ hi_access' = 0
  /\ build' = NoBuild
  /\ LET c == CheckInput(fm, M, rels)
     IN  IF c = "ok"
           THEN p_pc' = "linear" /\ outcome' = NoOutcome
           ELSE p_pc' = "done" /\ outcome' = [kind |-> c, score |-> <<>>]
  /\ UNCHANGED <<s_vars, fm, i_vars>>

\* part_000:65-83  the linear term and the allocation of the caches
LinearTerm ==
  /\ p_pc = "linear"
  /\ result' = LinearBlocks(LinearBase(fm, X), relations, X.cols, fm.w)
  /\ q_cache' = Zeros(X.rows)
  /\ buffer_cache' = Zeros(BufferSize(relations))
  /\ p_pc' = IF fm.n_factors > 0 THEN "q_base" ELSE "return"
  /\ UNCHANGED <<api, X, relations, factor_index, relation_index, offset,
                 hi_access, build, outcome>>
  /\ UNCHANGED <<s_vars, fm, i_vars>>

\* part_000:85-88
QBase ==
  /\ p_pc = "q_base"
  /\ q_cache' = QBaseOf(fm, X, factor_index)
  /\ offset' = X.cols
  /\ relation_index' = 0
  /\ p_pc' = "q_block"
  /\ UNCHANGED <<api, X, relations, result, buffer_cache, factor_index,
                 hi_access, build, outcome>>
  /\ UNCHANGED <<s_vars, fm, i_vars>>

\* part_000:89-99
QBlock == p_pc = "q_block" /\ BlockStep(TRUE)

\* part_000:100-105
QSquare ==
  /\ p_pc = "q_block"
  /\ relation_index = Len(relations)
  /\ result' = AddHalfSquare(result, q_cache)
  /\ offset' = X.cols
  /\ relation_index' = 0
  /\ q_cache' = CBaseOf(fm, X, factor_index)
  /\ p_pc' = "c_block"
  /\ UNCHANGED <<api, X, relations, buffer_cache, factor_index, hi_access,
                 build, outcome>>
  /\ UNCHANGED <<s_vars, fm, i_vars>>

\* part_000:106-120
CBlock == p_pc = "c_block" /\ BlockStep(FALSE)

\* part_000:121, and the loop at 85
CSub ==
  /\ p_pc = "c_block"
  /\ relation_index = Len(relations)
  /\ result' = SubHalf(result, q_cache)
  /\ factor_index' = factor_index + 1
  /\ p_pc' = IF factor_index + 1 < fm.n_factors THEN "q_base" ELSE "return"
  /\ UNCHANGED <<api, X, relations, q_cache, buffer_cache, relation_index,
                 offset, hi_access, build, outcome>>
  /\ UNCHANGED <<s_vars, fm, i_vars>>

\* part_000:123
Return ==
  /\ p_pc = "return"
  /\ outcome' = [kind |-> "score", score |-> result]
  /\ p_pc' = "done"
  /\ UNCHANGED <<api, X, relations, result, q_cache, buffer_cache,
                 factor_index, relation_index, offset, hi_access, build>>
  /\ UNCHANGED <<s_vars, fm, i_vars>>

\* FM.hpp:48  (X * V).array().square().rowwise().sum() * 0.5
RECURSIVE SquareSum(_, _, _)
SquareSum(f, M, k) ==
  IF k = 0 THEN Zeros(M.rows)
  ELSE LET q == MatVec(M, Col(f.V, k))
           rest == SquareSum(f, M, k - 1)
       IN  [i \in 1..M.rows |-> rest[i] + q[i] * q[i]]

\* FM.hpp:50  V.array().square().rowwise().sum()
VSquareRowSum(f) ==
  [j \in 1..f.V.rows |-> SeqSum([k \in 1..f.V.cols |-> At(f.V, j, k) * At(f.V, j, k)])]

\* FM.hpp:42-53  predict_score(X) of the class without relation blocks
PlainScore(f, M) ==
  LET lin == MatVec(M, f.w)
      sq == SquareSum(f, M, f.V.cols)
      corr == MatVec(CwiseAbs2(M), VSquareRowSum(f))
  IN  [i \in 1..M.rows |-> Whole(f.w0 + lin[i]) + HalfOf(sq[i]) - HalfOf(corr[i])]

\* FM.hpp:42-53 as a call: X * w is defined for X.cols() = w.rows() only.
PredictScorePlain(M) ==
  /\ p_pc = "idle"
  /\ M.cols = Len(fm.w)
  /\ api' = "plain"
  /\ X' = M
  /\ relations' = <<>>
  /\ result' = <<>>
  /\ q_cache' = <<>>
  /\ buffer_cache' = <<>>
  /\ factor_index' = 0
  /\ relation_index' = 0
  /\ offset' = 0
  /\ hi_access' = 0
  /\ build' = NoBuild
  /\ p_pc' = "done"
  /\ outcome' = IF fm.initialized
                  THEN [kind |-> "score", score |-> PlainScore(fm, M)]
                  ELSE [kind |-> "runtime_error", score |-> <<>>]
  /\ UNCHANGED <<s_vars, fm, i_vars>>

ScoreIdle ==
  /\ p_pc = "idle"
  /\ api = "blocks"
  /\ X = EmptyMatrix
  /\ relations = <<>>
  /\ result = <<>>
  /\ q_cache = <<>>
  /\ buffer_cache = <<>>
  /\ factor_index = 0
  /\ relation_index = 0
  /\ offset = 0
  /\ hi_access = 0
  /\ build = NoBuild
  /\ outcome = NoOutcome

SamplerInit ==
  /\ s_pc = "idle"
  /\ s_side = "left"
  /\ s_bound = NoReal
  /\ mu_minus = NoReal
  /\ alpha_star = NoReal
  /\ z = NoReal
  /\ s_ret = NoReal
  /\ n_draws = <<"none", 0>>
  /\ trials = 0
  /\ gen = 0

SamplerIdle == SamplerInit

SamplerNext ==
  \/ \E b \in Thresholds : CallLeft(b)
  \/ \E b \in Thresholds : CallRight(b)
  \/ \E n \in NormalDraws : RejectionTrial(n)
  \/ \E e \in ExpDraws, u \in Uniforms : EnvelopeTrial(e, u)

SamplerStart ==
  /\ SamplerInit
  /\ ObjectIdle
  /\ fm = FMNew(0, 1, 7)
  /\ ScoreIdle

SamplerSpec == SamplerStart /\ [][SamplerNext]_vars

\* The RNG yields every deviate again and again.  Two of the outcomes that
\* assumption promises are enough: the normal deviate 0, and the pair of
\* uniforms with -log(U) = 1.0 and u = 0.
SamplerFairness ==
  /\ WF_vars(RejectionTrial(Fin(0)))
  /\ WF_vars(EnvelopeTrial(Fin(One), Fin(0)))

SamplerFairSpec == SamplerStart /\ [][SamplerNext]_vars /\ SamplerFairness


(***************************************************************************)
(* The life of an FM object: one of the constructors, then any sequence of *)
(* initialize_weight calls and copies.                                     *)
(***************************************************************************)
ObjectInit ==
  /\ SamplerIdle
  /\ ScoreIdle
  /\ i_pc = "idle"
  /\ n_features = 0
  /\ init_std = 1
  /\ i_draws = 0
  /\ i_calls = 0
  /\ \/ /\ ctor = "new"
        /\ \E k \in 0..MaxFactors, g \in Indeterminate : fm = FMNew(k, 1, g)
     \/ /\ ctor = "explicit"
        /\ \E a \in ExplicitArgs : fm = FMExplicit(a[1], a[2], a[3])
  /\ args_ok = (Len(fm.w) = fm.V.rows)

ObjectNext ==
  \/ \E p \in 0..MaxFeatures, sd \in Stds : InitializeWeight(p, sd)
  \/ \E d \in Deviates : DrawV(d)
  \/ \E d \in Deviates : DrawW(d)
  \/ \E d \in Deviates : DrawW0(d)
  \/ CopyConstruct

ObjectSpec == ObjectInit /\ [][ObjectNext]_vars


(***************************************************************************)
(* Scoring: a model that is either fresh from FM(n_factors, n_groups) or   *)
(* loaded with FM(w0, w, V) from a fitted triple (w and V of one feature   *)
(* count), and one predict_score call on it.  The blocks handed in have at *)
(* least one column and every original_to_block entry in [0, block rows).  *)
(***************************************************************************)
MaxCases == 2
MaxBlockRows == 2
MaxWidth == 3
BlockCounts == {0, 1, 2}

BaseMatrices ==
  {Matrix(n, c, GenSeq(n + c, n * c)) : n \in 1..MaxCases, c \in 0..MaxWidth}

\* Mappings of n cases onto b rows: case i to row i mod b, or every case to
\* the last row; and a mapping for one case too many.
Mappings(n, b) ==
  {[i \in 1..n |-> (i - 1) % b], [i \in 1..n |-> b - 1],
   [i \in 1..(n + 1) |-> (i - 1) % b]}

BlocksFor(n) ==
  UNION {{RelationBlock(m, Matrix(b, c, GenSeq(b + 2 * c, b * c))) :
            m \in Mappings(n, b), c \in 1..MaxWidth} : b \in 1..MaxBlockRows}

RelationListsFor(n, room) ==
  {rels \in UNION {[1..k -> BlocksFor(n)] : k \in BlockCounts} :
     FeatureSizeSum(rels) <= room}

Calls ==
  UNION {{<<M, rels>> : rels \in RelationListsFor(M.rows, MaxWidth - M.cols)} :
           M \in BaseMatrices}

Fitted ==
  {FMExplicit(1, GenSeq(p, p), Matrix(p, k, GenSeq(k, p * k))) :
     p \in 0..MaxWidth, k \in 0..MaxFactors}

ScoreInit ==
  /\ SamplerIdle
  /\ ObjectIdle
  /\ ScoreIdle
  /\ \/ \E k \in 0..MaxFactors, g \in Indeterminate : fm = FMNew(k, 1, g)
     \/ fm \in Fitted

ScoreNext ==
  \/ \E c \in Calls : PredictScore(c[1], c[2])
  \/ \E M \in BaseMatrices : PredictScorePlain(M)
  \/ LinearTerm
  \/ QBase
  \/ QBlock
  \/ QSquare
  \/ CBlock
  \/ CSub
  \/ Return

ScoreSpec == ScoreInit /\ [][ScoreNext]_vars


(***************************************************************************)
(* References the claims compare the code with.                            *)
(***************************************************************************)
\* predict_score(M, {}) as part_000:65-123 computes it when there is no
\* relation block: the linear term, then for each factor +0.5 q^2 - 0.5 c.
RECURSIVE FactorTerms(_, _, _)
FactorTerms(f, M, k) ==
  IF k = 0 THEN LinearBase(f, M)
  ELSE SubHalf(AddHalfSquare(FactorTerms(f, M, k - 1), QBaseOf(f, M, k - 1)),
               CBaseOf(f, M, k - 1))
NoBlockScore(f, M) == FactorTerms(f, M, f.n_factors)

\* The naive reference: w0 + sum_j x_j w_j + sum_f sum_{j<k} V_jf V_kf x_j x_k
\* by a double loop over the feature pairs.
Naive(f, M) ==
  [i \in 1..M.rows |->
     Whole(f.w0
           + SeqSum([j \in 1..M.cols |-> At(M, i, j) * f.w[j]])
           + SeqSum([fi \in 1..f.V.cols |->
               SeqSum([j \in 1..M.cols |->
                 SeqSum([k \in 1..M.cols |->
                   IF j < k
                     THEN At(f.V, j, fi) * At(f.V, k, fi)
                            * At(M, i, j) * At(M, i, k)
                     ELSE 0])])]))]

\* The materialized matrix: row i is X[i] followed, for each block in list
\* order, by the block row that case i uses.
RECURSIVE ExpandedRow(_, _, _)
ExpandedRow(M, rels, i) ==
  IF rels = <<>> THEN Row(M, i)
  ELSE ExpandedRow(M, SubSeq(rels, 1, Len(rels) - 1), i)
         \o Row(rels[Len(rels)].X, rels[Len(rels)].original_to_block[i] + 1)

Expanded(M, rels) ==
  LET c == M.cols + FeatureSizeSum(rels)
      rows == [i \in 1..M.rows |-> ExpandedRow(M, rels, i)]
  IN  Matrix(M.rows, c,
             [k \in 1..(M.rows * c) |->
                rows[((k - 1) % M.rows) + 1][((k - 1) \div M.rows) + 1]])

\* The inputs the consistency checks reject.
Mismatch(f, M, rels) ==
  \/ \E r \in 1..Len(rels) : Len(rels[r].original_to_block) # M.rows
  \/ M.cols + FeatureSizeSum(rels) # Len(f.w)

(***************************************************************************)
(* The claims.                                                             *)
(***************************************************************************)

\* C1 (as stated): for an initialized model and inputs that pass the
\* consistency checks, predict_score(X, relations) ends with the score of
\* the materialized expanded matrix, predict_score(E, {}).
BlockEquivalence ==
  (p_pc = "done" /\ api = "blocks" /\ CheckInput(fm, X, relations) = "ok")
    => /\ outcome.kind = "score"
       /\ outcome.score = NoBlockScore(fm, Expanded(X, relations))

\* C2: for an initialized model and a base matrix with as many columns as w
\* has coefficients, the score of a call without relation blocks, in either
\* version of predict_score, is the naive double-loop reference.
NoBlockEqualsNaive ==
  (p_pc = "done" /\ relations = << >> /\ fm.initialized
     /\ X.cols = Len(fm.w))
    => /\ outcome.kind = "score"
       /\ outcome.score = Naive(fm, X)

NoBlockScored ==
  /\ p_pc = "done"
  /\ api = "blocks"
  /\ relations = << >>
  /\ outcome.kind = "score"
  /\ X.rows = MaxCases
  /\ X.cols = MaxWidth
  /\ fm.n_factors = MaxFactors
  /\ outcome.score # LinearBase(fm, X)

\* C3: a call predict_score(X, relations) whose inputs have a mapping of a
\* length other than X.rows, or a total width other than the length of w,
\* ends at once in invalid_argument, whether or not the model is
\* initialized: no result, no scratch vector, nothing read from the buffer,
\* and the model as it was.
MismatchRaisesFirst ==
  [][(p_pc = "idle" /\ p_pc' # "idle" /\ api' = "blocks"
        /\ Mismatch(fm, X', relations'))
       => /\ p_pc' = "done"
          /\ outcome' = [kind |-> "invalid_argument", score |-> << >>]
          /\ result' = << >>
          /\ q_cache' = << >>
          /\ buffer_cache' = << >>
          /\ hi_access' = 0
          /\ fm' = fm]_vars

MismatchRaised ==
  /\ p_pc = "done"
  /\ api = "blocks"
  /\ outcome.kind = "invalid_argument"
  /\ fm.initialized
  /\ X.cols + FeatureSizeSum(relations) = Len(fm.w)
  /\ Len(relations) = 2
  /\ Len(relations[1].original_to_block) = X.rows
  /\ Len(relations[2].original_to_block) # X.rows

\* C4 (as stated): on a model fresh from FM(n_factors, n_groups), every
\* call predict_score(X, relations) ends in runtime_error.
FreshModelNotInitialized ==
  (p_pc = "done" /\ api = "blocks" /\ ~fm.initialized)
    => outcome.kind = "runtime_error"

\* C5 (as stated): for a finite threshold, a value returned by
\* sample_truncated_normal_left is greater than the threshold and a value
\* returned by sample_truncated_normal_right is less than it.
StrictlyBeyondThreshold ==
  (s_pc = "returned" /\ IsFin(s_bound))
    => IF s_side = "left" THEN FGt(s_ret, s_bound) ELSE FLt(s_ret, s_bound)

\* C6: when a call initialize_weight(P, sigma, gen) has returned, w has P
\* coefficients, V is P x n_factors with all its coefficients, the model
\* is initialized, and the call drew P * n_factors + P + 1 deviates.
InitializeWeightShapes ==
  (i_pc = "idle" /\ i_calls = 1)
    => /\ Len(fm.w) = n_features
       /\ fm.V.rows = n_features
       /\ fm.V.cols = fm.n_factors
       /\ Len(fm.V.coef) = n_features * fm.n_factors
       /\ fm.initialized
       /\ i_draws = n_features * fm.n_factors + n_features + 1

WeightsInitialized ==
  /\ i_pc = "idle"
  /\ i_calls = 1
  /\ ~args_ok
  /\ n_features = MaxFeatures
  /\ fm.n_factors = MaxFactors

\* C7 (as stated): between calls, in every state reachable through the
\* constructors and initialize_weight, w has as many coefficients as V has
\* rows.
LengthsAgree == i_pc = "idle" => Len(fm.w) = fm.V.rows

\* C7 (amended): between calls, w has as many coefficients as V has rows
\* once initialize_weight has returned, or if the object comes from
\* FM(n_factors, n_groups), or from FM(w0, w, V) with w.rows() = V.rows(),
\* or from a copy of such an object.
LengthsAgreeWhenBuiltSo ==
  (i_pc = "idle" /\ (args_ok \/ i_calls = 1)) => Len(fm.w) = fm.V.rows

CopiedAndInitialized ==
  /\ i_pc = "idle"
  /\ ctor = "copy"
  /\ ~args_ok
  /\ i_calls = 1
  /\ Len(fm.w) = MaxFeatures
  /\ fm.n_factors = MaxFactors

\* C8 (as stated): a threshold <= 0 runs the rejection loop, a threshold
\* > 0 runs the envelope loop.
RegimeAsSpecified ==
  s_pc \in {"rejection", "envelope"}
    => /\ FLe(mu_minus, Fin(0)) => s_pc = "rejection"
       /\ FGt(mu_minus, Fin(0)) => s_pc = "envelope"

\* C8 (amended): a threshold < 0 runs the rejection loop, one normal
\* deviate a trial, and returns the first deviate greater than the
\* threshold; every other threshold, 0 included, runs the envelope loop
\* with alpha_star = (t + sqrt(t * t + 4)) / 2, two uniforms a trial, and a
\* finite alpha_star lies between max(1, t) and t + 1.
RegimeBySign ==
  /\ s_pc \in {"rejection", "envelope"}
       => /\ FLt(mu_minus, Fin(0)) => s_pc = "rejection"
          /\ FGe(mu_minus, Fin(0)) => s_pc = "envelope"
  /\ s_pc = "rejection"
       => /\ FLt(mu_minus, Fin(0))
          /\ trials > 0 => n_draws = <<"normal", 1>> /\ ~FGt(z, mu_minus)
  /\ s_pc = "envelope"
       => /\ ~FLt(mu_minus, Fin(0))
          /\ alpha_star = AlphaStar(mu_minus)
          /\ trials > 0 => n_draws = <<"uniform", 2>>
          /\ IsFin(alpha_star)
               => /\ FGe(alpha_star, mu_minus)
                  /\ FGe(alpha_star, Fin(One))
                  /\ FLe(alpha_star, FAdd(mu_minus, Fin(One)))
  /\ (s_pc = "returned" /\ n_draws = <<"normal", 1>>)
       => FLt(mu_minus, Fin(0)) /\ FGt(z, mu_minus) /\ s_ret = Returned(z)

EnvelopeAtZero ==
  /\ s_pc = "returned"
  /\ s_side = "left"
  /\ mu_minus = Fin(0)
  /\ n_draws = <<"uniform", 2>>
  /\ alpha_star = Fin(One)

\* The thresholds for which the loop has a trial that accepts, and those
\* for which no trial ever accepts.
InLoop == s_pc \in {"rejection", "envelope"}
Terminates(mu) ==
  IsFin(mu) /\ (FLt(mu, Fin(0)) \/ IsFin(FAdd(FMul(mu, mu), Fin(4 * One))))
NeverReturns(mu) ==
  IsNaN(mu) \/ mu = PosInf \/ (IsFin(mu) /\ ~Terminates(mu))

\* C9 (as stated): for every finite threshold, with a generator that
\* produces every draw again and again, the call returns.
ReturnsForFinite == (InLoop /\ IsFin(mu_minus)) ~> (s_pc = "returned")

\* C9 (amended): with a generator that produces every draw again and
\* again, the call returns for a finite threshold t that is negative or
\* whose t * t + 4 is finite; for NaN, for +infinity, and for a finite t
\* whose square overflows, it never returns.
ReturnsUnlessDegenerate ==
  /\ (InLoop /\ Terminates(mu_minus)) ~> (s_pc = "returned")
  /\ [](NeverReturns(mu_minus) => s_pc # "returned")

SquareOverflowLoops ==
  /\ s_pc = "envelope"
  /\ mu_minus = Fin(MaxFinite)
  /\ alpha_star = PosInf
  /\ trials = MaxTrials

\* C10 (as stated): every index of the scratch buffer that predict_score
\* writes or reads is below the buffer's length.
ScratchInBounds == api = "blocks" => hi_access <= Len(buffer_cache)

============================================================================
